---- MODULE Spec2Model ----
(***************************************************************************)
(* A model of bare, the batch renaming tool.                               *)
(*                                                                         *)
(* Strings are sequences of one-character strings.  A path is the sequence *)
(* of its components (std::path::Path is defined through its components):  *)
(* a component is a name, ".." or the root "/".                            *)
(*                                                                         *)
(* The repository holds two generations of the program: the executable of  *)
(* src/main.rs (its own inline cli, exit and bare modules) and the library *)
(* modules of src/bare/.  Both are modelled; ver tells which one runs.     *)
(***************************************************************************)
EXTENDS Integers, Sequences, FiniteSets, TLC

VARIABLES
    raw,              \* the raw command line (std::env::args)
    ver,              \* "main": src/main.rs, "lib": src/bare/*.rs
    pc,               \* the position of the program
    file_paths,       \* Args.file_paths / TypedCliArgs.files
    patterns,         \* Args.patterns / TypedCliArgs.patterns
    dry_run,          \* Args.dry_run
    print_help,       \* Args.print_help (main.rs)
    exit_code,        \* the ExitCode the process ended with, "none" while it runs
    idx,              \* the index of the candidate or rename a loop is at
    renames,          \* main.rs: RenameProposal.renames
    not_found,        \* main.rs: RenameProposal.not_found
    proposal,         \* bare/mod.rs: Proposal, parent dir -> Vec<Rename>
    files_not_found,  \* bare/mod.rs: the second component of the result
    fs,               \* the file system: the set of paths that are files
    log,              \* what RainbowLog wrote, one record per call
    answer,           \* ask_user's answer buffer
    prompts,          \* how often ask_user printed the question
    ops,              \* the std::fs::rename calls issued, with their results
    dst_name,         \* propose_renames: the destination name so far
    pidx              \* propose_renames: the index of the next pattern

vars == <<raw, ver, pc, file_paths, patterns, dry_run, print_help, exit_code,
          idx, renames, not_found, proposal, files_not_found, fs, log,
          answer, prompts, ops, dst_name, pidx>>

-----------------------------------------------------------------------------
(* Bounds *)

MaxFiles == 2
MaxPatterns == 2
MaxPrompts == 2
MaxFileArgs == 1
MaxPatArgs == 4

-----------------------------------------------------------------------------
(* Sequences *)

Range(s) == {s[i] : i \in 1..Len(s)}

SeqsUpTo(S, n) == UNION {[1..k -> S] : k \in 0..n}

RECURSIVE Flatten(_)
Flatten(ss) == IF ss = <<>> THEN <<>> ELSE Head(ss) \o Flatten(Tail(ss))

Last(s) == s[Len(s)]

Front(s) == SubSeq(s, 1, Len(s) - 1)

-----------------------------------------------------------------------------
(* Characters *)

Lower(c) ==
    CASE c = "A" -> "a"
      [] c = "B" -> "b"
      [] c = "Y" -> "y"
      [] c = "E" -> "e"
      [] c = "S" -> "s"
      [] c = "N" -> "n"
      [] c = "O" -> "o"
      [] OTHER -> c

to_lowercase(s) == [i \in 1..Len(s) |-> Lower(s[i])]

\* U+017F, the long s: a lower-case letter of its own, which the regex
\* crate's (?i) folds to s (Unicode simple case folding).
LongS == "long-s"

\* The case folding of a (?i) regex.
Fold(c) == IF c = LongS THEN "s" ELSE Lower(c)

FoldSeq(s) == [i \in 1..Len(s) |-> Fold(s[i])]

IsWhitespace(c) == c \in {" ", "\n", "\r", "\t"}

RECURSIVE trim_start(_)
trim_start(s) ==
    IF s # <<>> /\ IsWhitespace(Head(s)) THEN trim_start(Tail(s)) ELSE s

RECURSIVE trim_end(_)
trim_end(s) ==
    IF s # <<>> /\ IsWhitespace(Last(s)) THEN trim_end(Front(s)) ELSE s

trim(s) == trim_end(trim_start(s))

starts_with_dash(s) == s # <<>> /\ Head(s) = "-"

starts_with_slash(s) == s # <<>> /\ Head(s) = "/"

-----------------------------------------------------------------------------
(* Regular expressions: the literals, the wildcard ".", escapes and groups. *)
(* A compiled regex is [atoms, ci]: atoms is the sequence of one-character  *)
(* matchers ("ANY" is the wildcard), ci the (?i) flag.                      *)

AnyChar == "ANY"

\* Regex::new on the pattern text: the atoms, or a syntax error (an unclosed
\* or unopened group, a trailing backslash).
RECURSIVE ParseRegex(_, _, _)
ParseRegex(s, depth, acc) ==
    IF s = <<>>
    THEN [ok |-> depth = 0, atoms |-> acc]
    ELSE LET c == Head(s) IN
         CASE c = "\\" ->
                  IF Len(s) < 2
                  THEN [ok |-> FALSE, atoms |-> acc]
                  ELSE ParseRegex(SubSeq(s, 3, Len(s)), depth, Append(acc, s[2]))
           [] c = "(" -> ParseRegex(Tail(s), depth + 1, acc)
           [] c = ")" ->
                  IF depth = 0
                  THEN [ok |-> FALSE, atoms |-> acc]
                  ELSE ParseRegex(Tail(s), depth - 1, acc)
           [] c = "." -> ParseRegex(Tail(s), depth, Append(acc, AnyChar))
           [] OTHER -> ParseRegex(Tail(s), depth, Append(acc, c))

\* Mutant: the pattern text is taken as a literal string.
RegexNew_literal(s) == [ok |-> TRUE, regex |-> [atoms |-> s, ci |-> FALSE]]

RegexNew(s) ==
    LET r == ParseRegex(s, 0, <<>>)
    IN  [ok |-> r.ok, regex |-> [atoms |-> r.atoms, ci |-> FALSE]]

\* named("regex") / name_regex: wraps the regex in a named group, which
\* matches what the regex matches.
named(res) == res

\* case_insensitive(): wraps the regex in ((?i)...).
case_insensitive(res) ==
    IF res.ok
    THEN [ok |-> TRUE, regex |-> [atoms |-> res.regex.atoms, ci |-> TRUE]]
    ELSE res

AtomMatches(regex, atom, c) ==
    \/ atom = AnyChar /\ c # "\n"
    \/ atom # AnyChar /\ (IF regex.ci THEN Fold(atom) = Fold(c) ELSE atom = c)

\* The regex matches text at position i (1-based).
MatchesAt(regex, text, i) ==
    /\ i + Len(regex.atoms) - 1 <= Len(text)
    /\ \A k \in 1..Len(regex.atoms) :
           AtomMatches(regex, regex.atoms[k], text[i + k - 1])

\* The start of the leftmost match at or after position from; 0 if none.
FindFrom(regex, text, from) ==
    LET hits == {i \in from..(Len(text) + 1) : MatchesAt(regex, text, i)}
    IN  IF hits = {} THEN 0
        ELSE CHOOSE i \in hits : \A j \in hits : i <= j

is_match(regex, text) == FindFrom(regex, text, 1) # 0

\* Regex::replace: the leftmost match only.
replace(regex, text, rep) ==
    LET i == FindFrom(regex, text, 1)
    IN  IF i = 0 THEN text
        ELSE SubSeq(text, 1, i - 1) \o rep
             \o SubSeq(text, i + Len(regex.atoms), Len(text))

\* Mutant: replace_all stops after the first match.
replace_all_first_only(regex, text, rep) == replace(regex, text, rep)

\* Regex::replace_all: every non-overlapping match, left to right.
RECURSIVE ReplaceAllFrom(_, _, _, _)
ReplaceAllFrom(regex, text, rep, from) ==
    LET i == FindFrom(regex, text, from)
        n == Len(regex.atoms)
    IN  IF i = 0 THEN SubSeq(text, from, Len(text))
        ELSE IF n = 0
        THEN SubSeq(text, from, i - 1) \o rep
             \o (IF i > Len(text) THEN <<>>
                 ELSE <<text[i]>> \o ReplaceAllFrom(regex, text, rep, i + 1))
        ELSE SubSeq(text, from, i - 1) \o rep
             \o ReplaceAllFrom(regex, text, rep, i + n)

replace_all(regex, text, rep) == ReplaceAllFrom(regex, text, rep, 1)

-----------------------------------------------------------------------------
(* Paths (std::path::Path, Unix) *)

RootDir == <<"/">>
ParentDir == <<".", ".">>
CurDir == <<".">>

\* The text between the separators of a path string.
RECURSIVE SplitSlash(_, _, _)
SplitSlash(s, cur, acc) ==
    IF s = <<>> THEN Append(acc, cur)
    ELSE IF Head(s) = "/" THEN SplitSlash(Tail(s), <<>>, Append(acc, cur))
    ELSE SplitSlash(Tail(s), Append(cur, Head(s)), acc)

\* Path::new(s).components(): a leading "/" is the root, empty components
\* and "." are dropped except for a leading ".".
Components(s) ==
    LET parts == SplitSlash(s, <<>>, <<>>)
        keep(i) == /\ parts[i] # <<>>
                   /\ (parts[i] = CurDir => i = 1)
        kept == SelectSeq([i \in 1..Len(parts) |-> <<i, parts[i]>>],
                          LAMBDA e : keep(e[1]))
        body == [i \in 1..Len(kept) |-> kept[i][2]]
    IN  IF starts_with_slash(s) THEN <<RootDir>> \o body ELSE body

\* Path::file_name(): the last component if it is a normal one.
has_file_name(p) == p # <<>> /\ Last(p) \notin {RootDir, ParentDir, CurDir}

file_name(p) == Last(p)

\* Path::parent(): the path without its last component; None for the empty
\* path and for the root.
has_parent(p) == p # <<>> /\ Last(p) # RootDir

parent(p) == Front(p)

\* Path::join: an absolute argument replaces the path.
join(dir, name) ==
    IF starts_with_slash(name) THEN Components(name)
    ELSE dir \o Components(name)

-----------------------------------------------------------------------------
(* The file system *)

dir_d == <<"d">>
dir_e == <<"e">>
dir_x == <<"x">>

\* The directories that exist; dir_x does not.
Dirs == {<<RootDir>>, <<dir_d>>, <<dir_e>>, <<dir_d, ParentDir>>, <<dir_e, ParentDir>>}

\* Path::exists().
exists(p, files) == p \in files \/ p \in Dirs

\* std::fs::rename(src, dst): what it can return and the file system it
\* leaves.  It fails when src does not exist or dst is a directory; renaming
\* a file to itself succeeds and changes nothing; otherwise it succeeds,
\* replacing dst, or fails for a reason of the environment (permissions).
fs_rename(files, src, dst) ==
    IF src \notin files \/ dst \in Dirs \/ dst = <<>>
    THEN {[ok |-> FALSE, fs |-> files]}
    ELSE IF src = dst
    THEN {[ok |-> TRUE, fs |-> files]}
    ELSE {[ok |-> TRUE, fs |-> (files \ {src}) \cup {dst}],
          [ok |-> FALSE, fs |-> files]}

-----------------------------------------------------------------------------
(* Patterns *)

\* A Pattern is a (regex, replacement) tuple.
Pattern(regex, replacement) == [regex |-> regex, replacement |-> replacement]

\* Mutant: the rename is put in front of its directory's renames.
push_rename_front(prop, dir, rename) ==
    LET old == IF dir \in DOMAIN prop THEN prop[dir] ELSE <<>>
    IN  [k \in DOMAIN prop \cup {dir} |->
            IF k = dir THEN <<rename>> \o old ELSE prop[k]]

\* Mutant: a rename the directory already holds is not stored again.
push_rename_dedup(prop, dir, rename) ==
    LET old == IF dir \in DOMAIN prop THEN prop[dir] ELSE <<>>
    IN  [k \in DOMAIN prop \cup {dir} |->
            IF k = dir
            THEN (IF rename \in Range(old) THEN old ELSE Append(old, rename))
            ELSE prop[k]]

\* HashMap::insert after get(..).unwrap_or(&vec![]).clone() and push.
push_rename(prop, dir, rename) ==
    LET old == IF dir \in DOMAIN prop THEN prop[dir] ELSE <<>>
    IN  [k \in DOMAIN prop \cup {dir} |->
            IF k = dir THEN Append(old, rename) ELSE prop[k]]

EmptyMap == [k \in {} |-> <<>>]

-----------------------------------------------------------------------------
(* bare/mod.rs: propose_renames.  pc = "propose" is the head of the loop   *)
(* over the candidates, pc = "patterns" the head of the loop over the      *)
(* patterns, with dst_name the name so far.                                *)

\* Mutant: the missing candidate is put in front of the list.
push_not_found_front(list, src_path) == <<src_path>> \o list

\* files_not_found.push(src_path.to_path_buf())
push_not_found(list, src_path) == Append(list, src_path)

LibNextCandidate ==
    /\ pc = "propose" /\ ver = "lib"
    /\ idx <= Len(file_paths)
    /\ LET src_path == file_paths[idx] IN
       IF ~exists(src_path, fs)
       THEN /\ files_not_found' = push_not_found(files_not_found, src_path)
            /\ idx' = idx + 1
            /\ UNCHANGED <<pc, dst_name, pidx>>
       ELSE IF ~has_file_name(src_path)
       THEN /\ pc' = "panicked"
            /\ UNCHANGED <<idx, files_not_found, dst_name, pidx>>
       ELSE /\ dst_name' = file_name(src_path)
            /\ pidx' = 1
            /\ pc' = "patterns"
            /\ UNCHANGED <<idx, files_not_found>>
    /\ UNCHANGED <<raw, ver, file_paths, patterns, dry_run, print_help,
                   exit_code, renames, not_found, proposal, fs, log, answer,
                   prompts, ops>>

\* Mutant: every pattern is matched against, and applied to, the source
\* name instead of the name so far.
LibApplyPattern_OnSourceName ==
    /\ pc = "patterns" /\ ver = "lib"
    /\ pidx <= Len(patterns)
    /\ LET regex == patterns[pidx].regex
           replacement == patterns[pidx].replacement
           src_name == file_name(file_paths[idx])
       IN  dst_name' = IF is_match(regex, src_name)
                       THEN replace_all(regex, src_name, replacement)
                       ELSE dst_name
    /\ pidx' = pidx + 1
    /\ UNCHANGED <<raw, ver, pc, file_paths, patterns, dry_run, print_help,
                   exit_code, idx, renames, not_found, proposal,
                   files_not_found, fs, log, answer, prompts, ops>>

LibApplyPattern ==
    /\ pc = "patterns" /\ ver = "lib"
    /\ pidx <= Len(patterns)
    /\ LET regex == patterns[pidx].regex
           replacement == patterns[pidx].replacement
       IN  dst_name' = IF is_match(regex, dst_name)
                       THEN replace_all(regex, dst_name, replacement)
                       ELSE dst_name
    /\ pidx' = pidx + 1
    /\ UNCHANGED <<raw, ver, pc, file_paths, patterns, dry_run, print_help,
                   exit_code, idx, renames, not_found, proposal,
                   files_not_found, fs, log, answer, prompts, ops>>

LibRecordRename ==
    /\ pc = "patterns" /\ ver = "lib"
    /\ pidx > Len(patterns)
    /\ LET src_path == file_paths[idx] IN
       IF ~has_parent(src_path)
       THEN /\ pc' = "panicked"
            /\ UNCHANGED <<idx, proposal>>
       ELSE /\ proposal' = push_rename(proposal, parent(src_path),
                                       <<file_name(src_path), dst_name>>)
            /\ idx' = idx + 1
            /\ pc' = "propose"
    /\ UNCHANGED <<raw, ver, file_paths, patterns, dry_run, print_help,
                   exit_code, renames, not_found, files_not_found, fs, log,
                   answer, prompts, ops, dst_name, pidx>>

LibProposeReturn ==
    /\ pc = "propose" /\ ver = "lib"
    /\ idx > Len(file_paths)
    /\ pc' = "returned"
    /\ UNCHANGED <<raw, ver, file_paths, patterns, dry_run, print_help,
                   exit_code, idx, renames, not_found, proposal,
                   files_not_found, fs, log, answer, prompts, ops, dst_name,
                   pidx>>

-----------------------------------------------------------------------------
(* main.rs: bare::propose_renames, with the same positions *)

MainNextCandidate ==
    /\ pc = "propose" /\ ver = "main"
    /\ idx <= Len(file_paths)
    /\ LET src_path == file_paths[idx] IN
       IF ~has_parent(src_path) \/ ~has_file_name(src_path)
       THEN /\ pc' = "panicked"
            /\ UNCHANGED <<idx, not_found, dst_name, pidx>>
       ELSE IF ~exists(src_path, fs)
       THEN /\ not_found' = Append(not_found, src_path)
            /\ idx' = idx + 1
            /\ UNCHANGED <<pc, dst_name, pidx>>
       ELSE /\ dst_name' = file_name(src_path)
            /\ pidx' = 1
            /\ pc' = "patterns"
            /\ UNCHANGED <<idx, not_found>>
    /\ UNCHANGED <<raw, ver, file_paths, patterns, dry_run, print_help,
                   exit_code, renames, proposal, files_not_found, fs, log,
                   answer, prompts, ops>>

MainApplyPattern ==
    /\ pc = "patterns" /\ ver = "main"
    /\ pidx <= Len(patterns)
    /\ LET regex == patterns[pidx].regex
           replacement == patterns[pidx].replacement
       IN  dst_name' = IF is_match(regex, dst_name)
                       THEN replace(regex, dst_name, replacement)
                       ELSE dst_name
    /\ pidx' = pidx + 1
    /\ UNCHANGED <<raw, ver, pc, file_paths, patterns, dry_run, print_help,
                   exit_code, idx, renames, not_found, proposal,
                   files_not_found, fs, log, answer, prompts, ops>>

MainRecordRename ==
    /\ pc = "patterns" /\ ver = "main"
    /\ pidx > Len(patterns)
    /\ LET src_path == file_paths[idx]
           dst_path == join(parent(src_path), dst_name)
       IN  renames' = Append(renames, <<src_path, dst_path>>)
    /\ idx' = idx + 1
    /\ pc' = "propose"
    /\ UNCHANGED <<raw, ver, file_paths, patterns, dry_run, print_help,
                   exit_code, not_found, proposal, files_not_found, fs, log,
                   answer, prompts, ops, dst_name, pidx>>

MainProposeReturn ==
    /\ pc = "propose" /\ ver = "main"
    /\ idx > Len(file_paths)
    /\ pc' = "proposed"
    /\ UNCHANGED <<raw, ver, file_paths, patterns, dry_run, print_help,
                   exit_code, idx, renames, not_found, proposal,
                   files_not_found, fs, log, answer, prompts, ops, dst_name,
                   pidx>>

-----------------------------------------------------------------------------
(* The inputs of the proposal builder *)

n_a == <<"a">>
n_b == <<"b">>
n_aa == <<"a", "a">>
n_ab == <<"a", "b">>

\* The files that exist when the program starts.
FsInit == {<<dir_d, n_a>>, <<dir_d, n_aa>>, <<dir_d, n_ab>>,
           <<dir_e, n_a>>, <<dir_e, n_ab>>}

\* The candidates: the files, a missing file, a file of a missing
\* directory, the root and x/.. (a path without a file name).
Candidates == FsInit \cup {<<dir_d, n_b>>, <<dir_x, n_a>>,
                           <<RootDir>>, <<dir_x, ParentDir>>}

Compile(text) == RegexNew(text).regex

PatternUniverse ==
    {Pattern(Compile(<<"a">>), <<"b">>),
     Pattern(Compile(<<"b">>), <<"a">>),
     Pattern(Compile(<<"a">>), <<>>),
     Pattern(Compile(<<".">>), <<"b">>),
     Pattern(Compile(<<"(", "a", ")", "b">>), <<"a">>)}

\* bare/mod.rs tests: paths() and patterns().
TestDir == <<RootDir, <<"t", "m", "p">>,
             <<"b", "a", "r", "e", "_", "t", "e", "s", "t">>>>

shooshoo_bar == <<"s", "h", "o", "o", "s", "h", "o", "o", ".", "b", "a", "r">>
foo_bar_qux == <<"f", "o", "o", "-", "b", "a", "r", ".", "q", "u", "x">>
grault_qux == <<"_", "(", "g", "r", "a", "u", "l", "t", ")", ".", "q", "u", "x">>

TestPaths == <<Append(TestDir, shooshoo_bar), Append(TestDir, foo_bar_qux),
               Append(TestDir, grault_qux)>>

TestPatterns ==
    <<Pattern(Compile(<<"s", "h", "o", "o">>), <<"b", "o", "o">>),
      Pattern(Compile(<<"(", "-", ")", "b", "a", "r">>),
              <<"_", "c", "o", "c", "o", "n", "u", "t">>),
      Pattern(Compile(<<"\\", "(", "g", "r", "a", "u", "l", "t", "\\", ")">>),
              <<"g", "r", "a", "u", "l", "t">>),
      Pattern(Compile(<<"_">>), <<".">>)>>

\* The arguments and file systems the builder is run on: every candidate
\* list and pattern list within the bounds, and the two tests' set-ups
\* (ensure_exist, ensure_dont_exist).
BuilderInputs ==
    {[files |-> f, patterns |-> p, fs |-> FsInit] :
        f \in SeqsUpTo(Candidates, MaxFiles),
        p \in SeqsUpTo(PatternUniverse, MaxPatterns)}
    \cup {[files |-> TestPaths, patterns |-> TestPatterns, fs |-> t] :
             t \in {Range(TestPaths), {}}}

InitBuild ==
    /\ ver \in {"lib", "main"}
    /\ \E in \in BuilderInputs :
          /\ file_paths = in.files
          /\ patterns = in.patterns
          /\ fs = in.fs
    /\ pc = "propose"
    /\ idx = 1
    /\ raw = <<>>
    /\ dry_run = FALSE
    /\ print_help = FALSE
    /\ exit_code = "none"
    /\ renames = <<>>
    /\ not_found = <<>>
    /\ proposal = EmptyMap
    /\ files_not_found = <<>>
    /\ log = <<>>
    /\ answer = <<>>
    /\ prompts = 0
    /\ ops = <<>>
    /\ dst_name = <<>>
    /\ pidx = 1

NextBuild ==
    \/ LibNextCandidate
    \/ LibApplyPattern
    \/ LibRecordRename
    \/ LibProposeReturn
    \/ MainNextCandidate
    \/ MainApplyPattern
    \/ MainRecordRename
    \/ MainProposeReturn

SpecBuild == InitBuild /\ [][NextBuild]_vars

-----------------------------------------------------------------------------
(* main.rs: main, from the proposal on *)

Entry(tag, text, args) == [tag |-> tag, text |-> text, args |-> args]

\* log.warn("Not found, skipping {file}") for every file not found, then
\* log.info("{src} => {dst}") for every rename.
Rendering(nf, rs) ==
    [i \in 1..Len(nf) |-> Entry("W", "Not found, skipping", <<nf[i]>>)]
    \o [i \in 1..Len(rs) |-> Entry("I", "=>", <<rs[i][1], rs[i][2]>>)]

Render ==
    /\ pc = "proposed"
    /\ log' = log \o Rendering(not_found, renames)
    /\ pc' = "rendered"
    /\ UNCHANGED <<raw, ver, file_paths, patterns, dry_run, print_help,
                   exit_code, idx, renames, not_found, proposal,
                   files_not_found, fs, answer, prompts, ops, dst_name, pidx>>

\* if args.dry_run { return }
DryRunReturn ==
    /\ pc = "rendered"
    /\ dry_run
    /\ pc' = "exited"
    /\ exit_code' = "Ok"
    /\ UNCHANGED <<raw, ver, file_paths, patterns, dry_run, print_help, idx,
                   renames, not_found, proposal, files_not_found, fs, log,
                   answer, prompts, ops, dst_name, pidx>>

\* Mutant: the prompt is reached in dry-run mode too.
BeginAsk_IgnoresDryRun ==
    /\ pc = "rendered"
    /\ answer' = <<>>
    /\ pc' = "ask"
    /\ UNCHANGED <<raw, ver, file_paths, patterns, dry_run, print_help,
                   exit_code, idx, renames, not_found, proposal,
                   files_not_found, fs, log, prompts, ops, dst_name, pidx>>

\* The call of cli::ask_user: let mut answer = String::new().
BeginAsk ==
    /\ pc = "rendered"
    /\ ~dry_run
    /\ answer' = <<>>
    /\ pc' = "ask"
    /\ UNCHANGED <<raw, ver, file_paths, patterns, dry_run, print_help,
                   exit_code, idx, renames, not_found, proposal,
                   files_not_found, fs, log, prompts, ops, dst_name, pidx>>

\* The validator of main, ^(?i)(y|n|yes|no)?\n$ : the whole text is one of
\* the four words, or nothing, in any case, and a line feed.
validator_is_match(text) ==
    /\ text # <<>>
    /\ Last(text) = "\n"
    /\ FoldSeq(Front(text)) \in {<<>>, <<"y">>, <<"n">>, <<"y", "e", "s">>,
                                 <<"n", "o">>}

\* The lines stdin can deliver; the empty text is the end of the input.
AnswerLines ==
    {<<"y", "\n">>, <<"Y", "\n">>, <<"y", "e", "s", "\n">>,
     <<"Y", "E", "S", "\n">>, <<"y", "e", LongS, "\n">>,
     <<"n", "\n">>, <<"N", "O", "\n">>, <<"\n">>,
     <<"x", "\n">>, <<"y", " ", "\n">>, <<"y", "\r", "\n">>, <<>>}

Question == "Accord the changes? [y/N] "

\* One round of ask_user's loop: the question, then read_line into the
\* cleared buffer.
AskUserRead ==
    /\ pc = "ask"
    /\ ~validator_is_match(answer)
    /\ prompts < MaxPrompts
    /\ prompts' = prompts + 1
    /\ log' = Append(log, Entry("I", Question, <<>>))
    /\ \E line \in AnswerLines : answer' = line
    /\ UNCHANGED <<raw, ver, pc, file_paths, patterns, dry_run, print_help,
                   exit_code, idx, renames, not_found, proposal,
                   files_not_found, fs, ops, dst_name, pidx>>

\* read_line(..).expect("Failed to read input") on an input error.
AskUserReadFails ==
    /\ pc = "ask"
    /\ ~validator_is_match(answer)
    /\ prompts < MaxPrompts
    /\ prompts' = prompts + 1
    /\ log' = Append(log, Entry("I", Question, <<>>))
    /\ answer' = <<>>
    /\ pc' = "panicked"
    /\ UNCHANGED <<raw, ver, file_paths, patterns, dry_run, print_help,
                   exit_code, idx, renames, not_found, proposal,
                   files_not_found, fs, ops, dst_name, pidx>>

\* Mutant: any line that was read ends the loop.
AskUserReturn_AnyLine ==
    /\ pc = "ask"
    /\ answer # <<>>
    /\ pc' = "answered"
    /\ UNCHANGED <<raw, ver, file_paths, patterns, dry_run, print_help,
                   exit_code, idx, renames, not_found, proposal,
                   files_not_found, fs, log, answer, prompts, ops, dst_name,
                   pidx>>

AskUserReturn ==
    /\ pc = "ask"
    /\ validator_is_match(answer)
    /\ pc' = "answered"
    /\ UNCHANGED <<raw, ver, file_paths, patterns, dry_run, print_help,
                   exit_code, idx, renames, not_found, proposal,
                   files_not_found, fs, log, answer, prompts, ops, dst_name,
                   pidx>>

\* Mutant: the empty answer, the default, counts as a yes.
is_confirm_or_default(ans) == ans \in {<<"y">>, <<"y", "e", "s">>, <<>>}

\* The arms of match answer.to_lowercase().trim().
is_confirm(ans) == ans \in {<<"y">>, <<"y", "e", "s">>}

is_decline(ans) == ans \in {<<"n">>, <<"n", "o">>, <<>>}

MatchAnswer ==
    /\ pc = "answered"
    /\ LET ans == trim(to_lowercase(answer)) IN
       IF is_confirm(ans)
       THEN /\ pc' = "apply"
            /\ idx' = 1
            /\ UNCHANGED log
       ELSE IF is_decline(ans)
       THEN /\ log' = Append(log, Entry("I", "Aborted renaming files.", <<>>))
            /\ pc' = "quit"
            /\ UNCHANGED idx
       ELSE /\ log' = Append(log, Entry("W", "Don't know what to do with answer",
                                        <<ans>>))
            /\ pc' = "quit"
            /\ UNCHANGED idx
    /\ UNCHANGED <<raw, ver, file_paths, patterns, dry_run, print_help,
                   exit_code, renames, not_found, proposal, files_not_found,
                   fs, answer, prompts, ops, dst_name, pidx>>

\* Mutant: the first failed rename ends the batch.
ApplyRename_StopsAtFailure ==
    /\ pc = "apply"
    /\ idx <= Len(renames)
    /\ LET src == renames[idx][1]
           dst == renames[idx][2]
       IN  \E r \in fs_rename(fs, src, dst) :
              /\ fs' = r.fs
              /\ ops' = Append(ops, [src |-> src, dst |-> dst, ok |-> r.ok])
              /\ log' = IF r.ok THEN log
                        ELSE Append(log, Entry("E", "Failed to rename", <<src>>))
              /\ pc' = IF r.ok THEN pc ELSE "quit"
    /\ idx' = idx + 1
    /\ UNCHANGED <<raw, ver, file_paths, patterns, dry_run, print_help,
                   exit_code, renames, not_found, proposal, files_not_found,
                   answer, prompts, dst_name, pidx>>

\* Mutant: the renames are taken from the end of the list.
ApplyRename_Backwards ==
    /\ pc = "apply"
    /\ idx <= Len(renames)
    /\ LET src == renames[Len(renames) + 1 - idx][1]
           dst == renames[Len(renames) + 1 - idx][2]
       IN  \E r \in fs_rename(fs, src, dst) :
              /\ fs' = r.fs
              /\ ops' = Append(ops, [src |-> src, dst |-> dst, ok |-> r.ok])
              /\ log' = IF r.ok THEN log
                        ELSE Append(log, Entry("E", "Failed to rename", <<src>>))
    /\ idx' = idx + 1
    /\ UNCHANGED <<raw, ver, pc, file_paths, patterns, dry_run, print_help,
                   exit_code, renames, not_found, proposal, files_not_found,
                   answer, prompts, dst_name, pidx>>

\* One round of for (src, dst) in proposal.renames.
ApplyRename ==
    /\ pc = "apply"
    /\ idx <= Len(renames)
    /\ LET src == renames[idx][1]
           dst == renames[idx][2]
       IN  \E r \in fs_rename(fs, src, dst) :
              /\ fs' = r.fs
              /\ ops' = Append(ops, [src |-> src, dst |-> dst, ok |-> r.ok])
              /\ log' = IF r.ok THEN log
                        ELSE Append(log, Entry("E", "Failed to rename", <<src>>))
    /\ idx' = idx + 1
    /\ UNCHANGED <<raw, ver, pc, file_paths, patterns, dry_run, print_help,
                   exit_code, renames, not_found, proposal, files_not_found,
                   answer, prompts, dst_name, pidx>>

ApplyDone ==
    /\ pc = "apply"
    /\ idx > Len(renames)
    /\ log' = Append(log, Entry("I", "Done renaming files.", <<>>))
    /\ pc' = "quit"
    /\ UNCHANGED <<raw, ver, file_paths, patterns, dry_run, print_help,
                   exit_code, idx, renames, not_found, proposal,
                   files_not_found, fs, answer, prompts, ops, dst_name, pidx>>

\* exit::quit()
Quit ==
    /\ pc = "quit"
    /\ pc' = "exited"
    /\ exit_code' = "Ok"
    /\ UNCHANGED <<raw, ver, file_paths, patterns, dry_run, print_help, idx,
                   renames, not_found, proposal, files_not_found, fs, log,
                   answer, prompts, ops, dst_name, pidx>>

\* The runs of main: a few candidates and pattern lists (parse_patterns
\* lets no empty list through), with and without --dry-run.
MaxRenames == 3

FlowCandidates == {<<dir_d, n_a>>, <<dir_d, n_aa>>, <<dir_e, n_a>>,
                   <<dir_d, n_b>>}

FlowPatternLists ==
    {<<Pattern(Compile(<<"b">>), <<"a">>)>>,
     <<Pattern(Compile(<<"a">>), <<"b">>)>>,
     <<Pattern(Compile(<<"a", "a">>), <<"b">>)>>,
     <<Pattern(Compile(<<"a">>), <<>>)>>}

Init ==
    /\ ver = "main"
    /\ file_paths \in SeqsUpTo(FlowCandidates, MaxRenames)
    /\ patterns \in FlowPatternLists
    /\ dry_run \in BOOLEAN
    /\ fs = FsInit
    /\ pc = "propose"
    /\ idx = 1
    /\ raw = <<>>
    /\ print_help = FALSE
    /\ exit_code = "none"
    /\ renames = <<>>
    /\ not_found = <<>>
    /\ proposal = EmptyMap
    /\ files_not_found = <<>>
    /\ log = <<>>
    /\ answer = <<>>
    /\ prompts = 0
    /\ ops = <<>>
    /\ dst_name = <<>>
    /\ pidx = 1

Next ==
    \/ MainNextCandidate
    \/ MainApplyPattern
    \/ MainRecordRename
    \/ MainProposeReturn
    \/ Render
    \/ DryRunReturn
    \/ BeginAsk
    \/ AskUserRead
    \/ AskUserReadFails
    \/ AskUserReturn
    \/ MatchAnswer
    \/ ApplyRename
    \/ ApplyDone
    \/ Quit

Spec == Init /\ [][Next]_vars

-----------------------------------------------------------------------------
(* The command line *)

help_aliases == {<<"-", "h">>, <<"-", "-", "h", "e", "l", "p">>}
dry_run_aliases == {<<"-", "d">>, <<"-", "-", "d", "r", "y", "-", "r", "u", "n">>}
version_aliases == {<<"-", "v">>, <<"-", "-", "v", "e", "r", "s", "i", "o", "n">>}
files_aliases == {<<"-", "f">>, <<"-", "-", "f", "i", "l", "e", "s">>}
pattern_aliases == {<<"-", "p">>, <<"-", "-", "p", "a", "t", "t", "e", "r", "n">>}

\* The index of the first argument that is one of the aliases; 0 if none.
FirstAlias(args, aliases) ==
    LET hits == {i \in 1..Len(args) : args[i] \in aliases}
    IN  IF hits = {} THEN 0 ELSE CHOOSE i \in hits : \A j \in hits : i <= j

\* The longest prefix of args without an argument that starts with "-".
RECURSIVE take_while_no_dash(_)
take_while_no_dash(args) ==
    IF args = <<>> \/ starts_with_dash(Head(args)) THEN <<>>
    ELSE <<Head(args)>> \o take_while_no_dash(Tail(args))

\* main.rs: args_for, the values after the flag.
main_args_for(raw_args, flag_aliases) ==
    LET i == FirstAlias(raw_args, flag_aliases)
    IN  IF i = 0 THEN <<>>
        ELSE take_while_no_dash(SubSeq(raw_args, i + 1, Len(raw_args)))

\* Mutant: the flag itself is left out of the result, as in main.rs.
args_for_values_only(self, aliases) ==
    LET i == FirstAlias(self, aliases)
    IN  IF i = 0 THEN [some |-> FALSE, args |-> <<>>]
        ELSE [some |-> TRUE,
              args |-> take_while_no_dash(SubSeq(self, i + 1, Len(self)))]

\* bare/cli.rs: ArgsFor::args_for, None or the flag and its values.
args_for(self, aliases) ==
    LET i == FirstAlias(self, aliases)
    IN  IF i = 0 THEN [some |-> FALSE, args |-> <<>>]
        ELSE [some |-> TRUE,
              args |-> <<self[i]>>
                       \o take_while_no_dash(SubSeq(self, i + 1, Len(self)))]

\* main.rs: the body of parse_patterns after its two checks.  Regex::new of
\* every even argument is unwrapped.
RECURSIVE main_compile_pairs(_, _)
main_compile_pairs(raw_patterns, acc) ==
    IF Len(raw_patterns) < 2 THEN [panic |-> FALSE, patterns |-> acc]
    ELSE LET res == named(RegexNew(raw_patterns[1])) IN
         IF ~res.ok THEN [panic |-> TRUE, patterns |-> acc]
         ELSE main_compile_pairs(
                  SubSeq(raw_patterns, 3, Len(raw_patterns)),
                  Append(acc, Pattern(res.regex, raw_patterns[2])))

\* bare/cli.rs: validate_patterns, the exit code it aborts with.
validate_patterns(raw_patterns) ==
    LET len == Len(raw_patterns) - 1
    IN  IF len < 2 THEN "NotEnoughPatterns"
        ELSE IF len % 2 # 0 THEN "MalformedPattern"
        ELSE "none"

\* Mutant: a pair whose regex does not compile is skipped.
RECURSIVE cli_compile_pairs_skipping(_, _)
cli_compile_pairs_skipping(pats, acc) ==
    IF pats = <<>> THEN [code |-> "none", patterns |-> acc]
    ELSE LET result == named(case_insensitive(RegexNew(pats[1]))) IN
         cli_compile_pairs_skipping(
             SubSeq(pats, 3, Len(pats)),
             IF result.ok THEN Append(acc, Pattern(result.regex, pats[2]))
             ELSE acc)

\* bare/cli.rs: the while loop of parse_patterns.
RECURSIVE cli_compile_pairs(_, _)
cli_compile_pairs(pats, acc) ==
    IF pats = <<>> THEN [code |-> "none", patterns |-> acc]
    ELSE LET result == named(case_insensitive(RegexNew(pats[1]))) IN
         IF ~result.ok THEN [code |-> "MalformedRegex", patterns |-> acc]
         ELSE cli_compile_pairs(SubSeq(pats, 3, Len(pats)),
                                Append(acc, Pattern(result.regex, pats[2])))

to_paths(args) == [i \in 1..Len(args) |-> Components(args[i])]

\* main.rs: cli::Args::parse.
MainParse ==
    /\ pc = "start" /\ ver = "main"
    /\ print_help' = (\E i \in 1..Len(raw) : raw[i] \in help_aliases)
    /\ dry_run' = (\E i \in 1..Len(raw) : raw[i] \in dry_run_aliases)
    /\ file_paths' = to_paths(main_args_for(raw, files_aliases))
    /\ LET raw_patterns == main_args_for(raw, pattern_aliases)
           num_raw_patterns == Len(raw_patterns)
           res == main_compile_pairs(raw_patterns, <<>>)
       IN  IF num_raw_patterns < 2
           THEN /\ pc' = "exited"
                /\ exit_code' = "NotEnoughPatterns"
                /\ log' = Append(log, Entry("E", "Not enough patterns specified",
                                            <<raw_patterns>>))
                /\ UNCHANGED patterns
           ELSE IF num_raw_patterns % 2 # 0
           THEN /\ pc' = "exited"
                /\ exit_code' = "MalformedPattern"
                /\ log' = Append(log, Entry("E", "Malformed pattern detected in",
                                            <<raw_patterns>>))
                /\ UNCHANGED patterns
           ELSE IF res.panic
           THEN /\ pc' = "panicked"
                /\ UNCHANGED <<exit_code, log, patterns>>
           ELSE /\ patterns' = res.patterns
                /\ pc' = "parsed"
                /\ UNCHANGED <<exit_code, log>>
    /\ UNCHANGED <<raw, ver, idx, renames, not_found, proposal,
                   files_not_found, fs, answer, prompts, ops, dst_name, pidx>>

\* main: if args.print_help { print_usage(); exit::quit() }
MainHelp ==
    /\ pc = "parsed" /\ ver = "main"
    /\ print_help
    /\ pc' = "exited"
    /\ exit_code' = "Ok"
    /\ UNCHANGED <<raw, ver, file_paths, patterns, dry_run, print_help, idx,
                   renames, not_found, proposal, files_not_found, fs, log,
                   answer, prompts, ops, dst_name, pidx>>

\* main: the call of bare::propose_renames.
MainCallPropose ==
    /\ pc = "parsed" /\ ver = "main"
    /\ ~print_help
    /\ pc' = "propose"
    /\ idx' = 1
    /\ UNCHANGED <<raw, ver, file_paths, patterns, dry_run, print_help,
                   exit_code, renames, not_found, proposal, files_not_found,
                   fs, log, answer, prompts, ops, dst_name, pidx>>

\* bare/cli.rs: Args::parse, the chain parse_help, parse_dry_run,
\* parse_version, parse_files, parse_patterns; each may end the process.
CliParse ==
    /\ pc = "start" /\ ver = "lib"
    /\ LET files == args_for(raw, files_aliases)
           pats == args_for(raw, pattern_aliases)
           check == validate_patterns(pats.args)
           res == cli_compile_pairs(Tail(pats.args), <<>>)
           exit(code, dry, paths) ==
               /\ pc' = "exited"
               /\ exit_code' = code
               /\ dry_run' = dry
               /\ file_paths' = paths
               /\ UNCHANGED patterns
       IN  IF args_for(raw, help_aliases).some
           THEN exit("Ok", dry_run, file_paths)
           ELSE LET dry == args_for(raw, dry_run_aliases).some IN
           IF args_for(raw, version_aliases).some
           THEN exit("Ok", dry, file_paths)
           ELSE IF ~files.some
           THEN exit("MissingRequiredCliArgument", dry, file_paths)
           ELSE IF Len(files.args) = 1
           THEN exit("NotEnoughFiles", dry, file_paths)
           ELSE LET paths == to_paths(Tail(files.args)) IN
           IF ~pats.some
           THEN exit("MissingRequiredCliArgument", dry, paths)
           ELSE IF check # "none"
           THEN exit(check, dry, paths)
           ELSE IF res.code # "none"
           THEN exit(res.code, dry, paths)
           ELSE /\ pc' = "parsed"
                /\ dry_run' = dry
                /\ file_paths' = paths
                /\ patterns' = res.patterns
                /\ UNCHANGED exit_code
    /\ UNCHANGED <<raw, ver, print_help, idx, renames, not_found, proposal,
                   files_not_found, fs, log, answer, prompts, ops, dst_name,
                   pidx>>

\* The command lines: the program name, at most one of -d, -h and -v, and
\* the files and the patterns in either order, with the short or the long
\* flags, or left out.
prog == <<"b", "a", "r", "e">>

FileTokens == {<<"d", "/", "a">>, <<"x", "/", "a">>}

\* Pattern arguments: two regexes and a regex with an unclosed group.
PatTokens == {<<"a">>, <<"b">>, <<"(", "a">>}

\* A flag with its values, or nothing.
Section(flag, values) == {<<>>} \cup {<<flag>> \o v : v \in values}

RawArgs ==
    LET pre == {<<>>, <<<<"-", "d">>>>, <<<<"-", "h">>>>, <<<<"-", "v">>>>}
        flags == {<<<<"-", "f">>, <<"-", "p">>>>,
                  <<<<"-", "-", "f", "i", "l", "e", "s">>,
                    <<"-", "-", "p", "a", "t", "t", "e", "r", "n">>>>}
        F(fl) == Section(fl[1], SeqsUpTo(FileTokens, MaxFileArgs))
        P(fl) == Section(fl[2], SeqsUpTo(PatTokens, MaxPatArgs))
    IN  UNION {{<<prog>> \o x \o f \o p : x \in pre, f \in F(fl), p \in P(fl)}
               \cup {<<prog>> \o x \o p \o f : x \in pre, f \in F(fl), p \in P(fl)}
               : fl \in flags}

\* bare/cli.rs tests: raw_args().
raw_args ==
    <<prog, <<"-", "p">>, <<"e", "i", "n">>, <<"z", "w", "e", "i">>,
      <<"d", "r", "e", "i">>, <<"v", "i", "e", "r">>,
      <<"-", "-", "f", "i", "l", "e", "s">>,
      <<"f", "o", "o", ".", "b", "a", "r">>,
      <<"b", "a", "z", ".", "q", "u", "x">>,
      <<"-", "d">>, <<"-", "-", "h", "e", "l", "p">>,
      <<"-", "-", "v", "e", "r", "s", "i", "o", "n">>>>

\* Command lines with a flag given twice, under both of its names, and
\* with a flag at the very end.
RepeatedFlagArgs ==
    {<<prog, <<"-", "f">>, <<"d", "/", "a">>,
       <<"-", "-", "f", "i", "l", "e", "s">>, <<"x", "/", "a">>,
       <<"-", "p">>, <<"a">>, <<"b">>>>,
     <<prog, <<"-", "-", "p", "a", "t", "t", "e", "r", "n">>, <<"a">>, <<"b">>,
       <<"-", "f">>, <<"d", "/", "a">>, <<"-", "p">>, <<"b">>, <<"a">>>>,
     <<prog, <<"-", "p">>, <<"a">>, <<"b">>, <<"-", "f">>, <<"d", "/", "a">>,
       <<"-", "d">>>>}

InitCli ==
    /\ raw \in RawArgs \cup RepeatedFlagArgs \cup {raw_args}
    /\ ver \in {"main", "lib"}
    /\ pc = "start"
    /\ file_paths = <<>>
    /\ patterns = <<>>
    /\ dry_run = FALSE
    /\ print_help = FALSE
    /\ exit_code = "none"
    /\ fs = FsInit
    /\ idx = 1
    /\ renames = <<>>
    /\ not_found = <<>>
    /\ proposal = EmptyMap
    /\ files_not_found = <<>>
    /\ log = <<>>
    /\ answer = <<>>
    /\ prompts = 0
    /\ ops = <<>>
    /\ dst_name = <<>>
    /\ pidx = 1

NextCli ==
    \/ MainParse
    \/ MainHelp
    \/ MainCallPropose
    \/ CliParse

SpecCli == InitCli /\ [][NextCli]_vars

-----------------------------------------------------------------------------
(* Properties of propose_renames (SpecBuild) *)

\* The positions of the proposal builder.
InBuilder == pc \in {"propose", "patterns", "returned", "proposed", "panicked"}

\* The candidates the loop is done with.
Processed == SubSeq(file_paths, 1, idx - 1)

MissingProcessed == SelectSeq(Processed, LAMBDA p : ~exists(p, fs))

\* C1: every processed candidate whose path does not exist is in the
\* not-found list, in input order, and no Rename is recorded for it; if no
\* processed candidate exists, the proposal is empty.
C1_MissingAreNotFound ==
    InBuilder =>
        /\ ver = "lib" =>
              /\ files_not_found = MissingProcessed
              /\ \A i \in 1..Len(MissingProcessed) :
                    LET p == MissingProcessed[i] IN
                    has_parent(p) /\ has_file_name(p) /\ parent(p) \in DOMAIN proposal
                        => \A k \in 1..Len(proposal[parent(p)]) :
                               proposal[parent(p)][k][1] # file_name(p)
              /\ (MissingProcessed = Processed => DOMAIN proposal = {})
        /\ ver = "main" =>
              /\ not_found = MissingProcessed
              /\ \A k \in 1..Len(renames) : ~(\E i \in 1..Len(MissingProcessed) :
                                                  MissingProcessed[i] = renames[k][1])
              /\ (MissingProcessed = Processed => renames = <<>>)

\* propose_renames returned with two different missing candidates.
C1_Witness ==
    /\ ver = "lib" /\ pc = "returned"
    /\ Len(files_not_found) = 2
    /\ files_not_found[1] # files_not_found[2]

\* text with the leftmost match of regex, and no other, replaced by rep.
FirstMatchReplaced(regex, rep, text, result) ==
    \E i \in 1..(Len(text) + 1) :
        /\ MatchesAt(regex, text, i)
        /\ \A j \in 1..(i - 1) : ~MatchesAt(regex, text, j)
        /\ result = SubSeq(text, 1, i - 1) \o rep
                    \o SubSeq(text, i + Len(regex.atoms), Len(text))

\* text with every match of regex replaced by rep: the leftmost match, then
\* every match in what follows it.
RECURSIVE EveryMatchReplaced(_, _, _)
EveryMatchReplaced(regex, rep, text) ==
    LET hits == {i \in 1..(Len(text) + 1) : MatchesAt(regex, text, i)}
        i == CHOOSE h \in hits : \A j \in hits : h <= j
        n == Len(regex.atoms)
    IN  IF hits = {} THEN text
        ELSE IF n = 0
        THEN rep \o (IF text = <<>> THEN <<>>
                     ELSE <<Head(text)>> \o EveryMatchReplaced(regex, rep, Tail(text)))
        ELSE SubSeq(text, 1, i - 1) \o rep
             \o EveryMatchReplaced(regex, rep, SubSeq(text, i + n, Len(text)))

\* A step of the loop over the patterns whose pattern matches the name.
MatchingPatternStep ==
    /\ pc = "patterns"
    /\ pidx <= Len(patterns)
    /\ pidx' = pidx + 1
    /\ \E i \in 1..(Len(dst_name) + 1) : MatchesAt(patterns[pidx].regex, dst_name, i)

TestScenario ==
    /\ ver = "lib"
    /\ file_paths = TestPaths
    /\ patterns = TestPatterns
    /\ fs = Range(TestPaths)

\* C3: with the four patterns of the test applied in order to the three
\* existing files of one directory, propose_renames maps shooshoo.bar to
\* booboo.bar, foo-bar.qux to foo.coconut.qux and _(grault).qux to
\* .grault.qux, and finds every file.
C3_TestExample ==
    TestScenario /\ pc = "returned" =>
        /\ files_not_found = <<>>
        /\ DOMAIN proposal = {TestDir}
        /\ proposal[TestDir] =
              << <<shooshoo_bar,
                   <<"b", "o", "o", "b", "o", "o", ".", "b", "a", "r">>>>,
                 <<foo_bar_qux,
                   <<"f", "o", "o", ".", "c", "o", "c", "o", "n", "u", "t", ".",
                     "q", "u", "x">>>>,
                 <<grault_qux,
                   <<".", "g", "r", "a", "u", "l", "t", ".", "q", "u", "x">>>> >>

\* propose_renames returned in the set-up of the test.
C3_Witness == TestScenario /\ pc = "returned" /\ Len(proposal[TestDir]) = 3

\* The existing candidates the loop is done with.
PresentProcessed == SelectSeq(Processed, LAMBDA p : exists(p, fs))

\* C9: for every parent directory, the Renames stored under it are those
\* of the processed existing candidates of that directory, in input order.
C9_InputOrderWithinDirectory ==
    InBuilder /\ ver = "lib" =>
        /\ DOMAIN proposal =
              {parent(PresentProcessed[i]) : i \in 1..Len(PresentProcessed)}
        /\ \A dir \in DOMAIN proposal :
              LET of_dir == SelectSeq(PresentProcessed, LAMBDA p : parent(p) = dir)
              IN  [i \in 1..Len(proposal[dir]) |-> proposal[dir][i][1]]
                  = [i \in 1..Len(of_dir) |-> file_name(of_dir[i])]

\* A directory holds the renames of two different candidates.
C9_Witness ==
    /\ ver = "lib"
    /\ \E dir \in DOMAIN proposal :
          /\ Len(proposal[dir]) >= 2
          /\ proposal[dir][1][1] # proposal[dir][2][1]

\* The name after the patterns pats, applied from the left to the name:
\* the last pattern works on what the patterns before it made of the name,
\* and a pattern that does not match it leaves it as it is.
RECURSIVE FoldPatterns(_, _)
FoldPatterns(pats, name) ==
    IF pats = <<>> THEN name
    ELSE LET before == FoldPatterns(Front(pats), name)
             pat == Last(pats)
         IN  IF ~is_match(pat.regex, before) THEN before
             ELSE IF ver = "lib"
             THEN replace_all(pat.regex, before, pat.replacement)
             ELSE replace(pat.regex, before, pat.replacement)

\* C12: propose_renames folds the pattern list from the left: in the loop
\* over the patterns the running name is the fold of the patterns applied
\* so far over the source name, and the destination recorded for a
\* candidate is the fold of the whole pattern list over its name.
C12_PatternsAreALeftFold ==
    InBuilder =>
        /\ pc = "patterns" =>
              dst_name = FoldPatterns(SubSeq(patterns, 1, pidx - 1),
                                      file_name(file_paths[idx]))
        /\ ver = "lib" =>
              \A dir \in DOMAIN proposal :
                  LET of_dir == SelectSeq(PresentProcessed,
                                          LAMBDA p : parent(p) = dir)
                  IN  /\ Len(proposal[dir]) = Len(of_dir)
                      /\ \A i \in 1..Len(of_dir) :
                             proposal[dir][i][2] =
                                 FoldPatterns(patterns, file_name(of_dir[i]))
        /\ ver = "main" =>
              /\ Len(renames) = Len(PresentProcessed)
              /\ \A i \in 1..Len(renames) :
                     LET p == PresentProcessed[i] IN
                     renames[i][2] =
                         join(parent(p), FoldPatterns(patterns, file_name(p)))

\* C12 witness: bare/mod.rs returned a Rename for a candidate whose name
\* the second pattern does not match, while it matches, and changes, the
\* name the first pattern made of it.
C12_Witness ==
    /\ ver = "lib" /\ pc = "returned"
    /\ Len(patterns) = 2
    /\ \E dir \in DOMAIN proposal : \E i \in 1..Len(proposal[dir]) :
          LET src_name == proposal[dir][i][1]
              mid == FoldPatterns(<<patterns[1]>>, src_name)
          IN  /\ ~is_match(patterns[2].regex, src_name)
              /\ is_match(patterns[2].regex, mid)
              /\ proposal[dir][i][2] # mid

\* C13: propose_renames raises no failure, whatever the candidates: it
\* never ends in a panic, and every candidate it is done with is in the
\* not-found list or has a Rename.
C13_NoFailureRaised ==
    InBuilder =>
        /\ pc # "panicked"
        /\ \A i \in 1..Len(Processed) :
               LET p == Processed[i] IN
               IF ver = "lib"
               THEN \/ p \in Range(files_not_found)
                    \/ /\ has_parent(p) /\ parent(p) \in DOMAIN proposal
                       /\ \E k \in 1..Len(proposal[parent(p)]) :
                              proposal[parent(p)][k][1] = file_name(p)
               ELSE \/ p \in Range(not_found)
                    \/ \E k \in 1..Len(renames) : renames[k][1] = p

\* The number of Renames of a proposal, over its directories.
RECURSIVE NumRenames(_, _)
NumRenames(prop, dirs) ==
    IF dirs = {} THEN 0
    ELSE LET dir == CHOOSE d \in dirs : TRUE
         IN  Len(prop[dir]) + NumRenames(prop, dirs \ {dir})

\* How often candidate p occurs in the candidates done with.
Occurrences(p) == Cardinality({i \in 1..Len(Processed) : Processed[i] = p})

\* C16: propose_renames merges no candidates: the not-found entries and
\* the Renames together are as many as the candidates the loop is done
\* with, all of them once it returns; a path listed n times has n entries
\* of its own, and a file name of two directories one Rename in each.
C16_NoCandidateMerged ==
    InBuilder =>
        /\ ver = "lib" =>
              /\ Len(files_not_found) + NumRenames(proposal, DOMAIN proposal)
                     = Len(Processed)
              /\ \A i \in 1..Len(Processed) :
                     LET p == Processed[i] IN
                     IF exists(p, fs)
                     THEN Cardinality({k \in 1..Len(proposal[parent(p)]) :
                              proposal[parent(p)][k][1] = file_name(p)})
                          = Occurrences(p)
                     ELSE Cardinality({k \in 1..Len(files_not_found) :
                              files_not_found[k] = p})
                          = Occurrences(p)
        /\ ver = "main" =>
              Len(not_found) + Len(renames) = Len(Processed)
        /\ pc \in {"returned", "proposed"} => Len(Processed) = Len(file_paths)

\* C16 witness: bare/mod.rs returned for a list with the same existing
\* path twice, and the directory holds two equal Renames.
C16_Witness ==
    /\ ver = "lib" /\ pc = "returned"
    /\ Len(file_paths) = 2
    /\ file_paths[1] = file_paths[2]
    /\ exists(file_paths[1], fs)
    /\ Len(proposal[parent(file_paths[1])]) = 2

-----------------------------------------------------------------------------
(* Properties of main (Spec) *)

\* The failures the log reports and the failed renames, by source.
ReportedFailures ==
    LET errs == SelectSeq(log, LAMBDA e : e.tag = "E")
    IN  [i \in 1..Len(errs) |-> errs[i].args[1]]

FailedRenames ==
    LET failed == SelectSeq(ops, LAMBDA op : ~op.ok)
    IN  [i \in 1..Len(failed) |-> failed[i].src]

\* A step that issues a rename.
RenameStep == ops' # ops

\* C4: a failed rename does not end the batch: the renames are attempted
\* one by one, each exactly once, a run that issued a rename ends only
\* after all of them were attempted, every failure is reported exactly
\* once, and a failed rename leaves the file system, and with it the
\* renames that succeeded before, as it was.
C4_FailureDoesNotStopTheBatch ==
    /\ [](/\ pc = "apply" => Len(ops) = idx - 1
          /\ Len(ops) <= Len(renames)
          /\ \A k \in 1..Len(ops) :
                ops[k].src = renames[k][1] /\ ops[k].dst = renames[k][2]
          /\ pc \in {"quit", "exited"} /\ ops # <<>> => Len(ops) = Len(renames)
          /\ ReportedFailures = FailedRenames)
    /\ [][RenameStep =>
             LET op == Last(ops') IN
             /\ ops' = Append(ops, op)
             /\ fs' = IF op.ok THEN (fs \ {op.src}) \cup {op.dst} ELSE fs]_vars

\* The run ended with three renames attempted: the first succeeded and is
\* still in place, the second failed, the third was attempted.
C4_Witness ==
    /\ pc = "exited"
    /\ Len(ops) = 3
    /\ ops[1].ok /\ ops[1].src # ops[1].dst
    /\ ~ops[2].ok
    /\ ops[1].dst \in fs /\ ops[1].src \notin fs

\* C5: in dry-run mode the run ends after the plan is rendered: nothing is
\* asked, the apply step is not reached, no rename is issued and the file
\* system stays as it was.
C5_DryRunIssuesNoRename ==
    dry_run =>
        /\ ops = <<>>
        /\ fs = FsInit
        /\ prompts = 0
        /\ pc \notin {"ask", "answered", "apply", "quit"}
        /\ pc = "exited" => log = Rendering(not_found, renames)

\* A dry run ended with a plan of at least one real rename.
C5_Witness ==
    /\ dry_run /\ pc = "exited"
    /\ \E k \in 1..Len(renames) : renames[k][1] # renames[k][2]

\* The answer is the word, in any case, and a line feed.
AnswerIs(words) ==
    /\ answer # <<>>
    /\ Last(answer) = "\n"
    /\ \E w \in words :
          /\ Len(w) = Len(answer) - 1
          /\ \A i \in 1..Len(w) : answer[i] = w[i] \/ Lower(answer[i]) = w[i]

\* C6: a rename is issued only if the answer is y or yes in any case; after
\* the answers n, no and the empty line the run is aborted, with no rename
\* issued and the file system as it was.
C6_RenameOnlyAfterYes ==
    /\ ops # <<>> => AnswerIs({<<"y">>, <<"y", "e", "s">>})
    /\ pc \in {"apply"} => AnswerIs({<<"y">>, <<"y", "e", "s">>})
    /\ pc \in {"quit", "exited"} /\ AnswerIs({<<"n">>, <<"n", "o">>, <<>>}) =>
          /\ ops = <<>>
          /\ fs = FsInit
          /\ Last(log) = Entry("I", "Aborted renaming files.", <<>>)

\* The run was aborted by the empty line with a real rename in the plan.
C6_Witness ==
    /\ pc = "exited" /\ answer = <<"\n">>
    /\ \E k \in 1..Len(renames) : renames[k][1] # renames[k][2]

\* C7 as stated: no file-system rename is issued for a Rename whose source
\* equals its destination.
C7_NoOpRenameNotIssued ==
    \A k \in 1..Len(ops) : ops[k].src # ops[k].dst

\* The rendering of the plan has happened.
IsRendered == pc \in {"rendered", "ask", "answered", "apply", "quit", "exited"}

\* C8 as stated: an existing candidate whose base name no pattern matches
\* gets a Rename whose destination equals its source, and the rendering
\* flags that Rename instead of showing it like a real rename.
C8_NoOpRenameFlagged ==
    IsRendered =>
        \A i \in 1..Len(file_paths) :
            LET p == file_paths[i] IN
            /\ exists(p, FsInit)
            /\ \A k \in 1..Len(patterns) : ~is_match(patterns[k].regex, file_name(p))
            => /\ \E k \in 1..Len(renames) : renames[k] = <<p, p>>
               /\ \A e \in Range(log) :
                     e.args = <<p, p>> => ~(e.tag = "I" /\ e.text = "=>")

-----------------------------------------------------------------------------
(* Properties of the pattern parsing (SpecCli) *)

\* The arguments after the first -p or --pattern, up to the next flag.
PatternArgs ==
    LET at == {i \in 1..Len(raw) : raw[i] \in pattern_aliases}
        first == CHOOSE i \in at : \A j \in at : i <= j
        dash == {j \in (first + 1)..Len(raw) : Head(raw[j]) = "-"}
        end == IF dash = {} THEN Len(raw)
               ELSE (CHOOSE j \in dash : \A k \in dash : j <= k) - 1
    IN  IF at = {} THEN <<>> ELSE SubSeq(raw, first + 1, end)

\* Fewer than two pattern arguments, an odd number of them, or a regex
\* that does not compile.
MalformedPatternArgs ==
    \/ Len(PatternArgs) < 2
    \/ Len(PatternArgs) % 2 # 0
    \/ \E k \in 1..Len(PatternArgs) : k % 2 = 1 /\ ~ParseRegex(PatternArgs[k], 0, <<>>).ok

bogus_aliases == {<<"-", "s">>,
                  <<"-", "-", "s", "o", "m", "e", "-", "b", "o", "g", "u", "s",
                    "-", "f", "l", "a", "g">>}

AliasLists == {help_aliases, dry_run_aliases, version_aliases, files_aliases,
               pattern_aliases, bogus_aliases}

\* What args_for is to return for the argument list self: None without an
\* occurrence of an alias; else the slice of self that starts at the first
\* occurrence, holds no argument with a leading "-" after it, and ends at
\* the end of the list or right before an argument with a leading "-".
ArgsForContract(self, aliases) ==
    LET r == args_for(self, aliases)
        occ == {i \in 1..Len(self) : self[i] \in aliases}
        n == Len(r.args)
    IN  IF occ = {} THEN ~r.some
        ELSE /\ r.some
             /\ n >= 1
             /\ \E i \in occ :
                    /\ \A j \in occ : i <= j
                    /\ i + n - 1 <= Len(self)
                    /\ r.args = SubSeq(self, i, i + n - 1)
                    /\ \A k \in 2..n : ~starts_with_dash(r.args[k])
                    /\ \/ i + n = Len(self) + 1
                       \/ starts_with_dash(self[i + n])

\* C11: args_for returns None when no alias of the flag occurs in the
\* arguments; otherwise the first occurring alias followed by the arguments
\* after it up to, and excluding, the next argument that starts with "-" or
\* up to the end of the list; on raw_args() it gives what the tests expect.
C11_ArgsForContract ==
    /\ \A aliases \in AliasLists : ArgsForContract(raw, aliases)
    /\ raw = raw_args =>
           /\ args_for(raw, help_aliases).args = SubSeq(raw, 11, 11)
           /\ args_for(raw, dry_run_aliases).args = SubSeq(raw, 10, 10)
           /\ args_for(raw, version_aliases).args = SubSeq(raw, 12, 12)
           /\ args_for(raw, pattern_aliases).args = SubSeq(raw, 2, 6)
           /\ args_for(raw, files_aliases).args = SubSeq(raw, 7, 9)
           /\ ~args_for(raw, bogus_aliases).some

\* C11 witness: Args::parse went through a command line without -h, with
\* a -d that has no values, and with a file list that the pattern flag ends.
C11_Witness ==
    /\ pc = "parsed" /\ ver = "lib"
    /\ ~args_for(raw, help_aliases).some
    /\ Len(args_for(raw, dry_run_aliases).args) = 1
    /\ Len(args_for(raw, files_aliases).args) = 2
    /\ FirstAlias(raw, files_aliases) < FirstAlias(raw, pattern_aliases)
    /\ Len(args_for(raw, pattern_aliases).args) = 3


-----------------------------------------------------------------------------
(* Properties of the apply step and of the prompt (Spec) *)

\* C14: the rename calls are issued in the order of the renames of the
\* proposal: the calls so far are the first renames of the list, one call
\* each, failed or not, and all of them when the batch is done.
C14_AppliedInStoredOrder ==
    /\ Len(ops) <= Len(renames)
    /\ \A i \in 1..Len(ops) :
           /\ ops[i].src = renames[i][1]
           /\ ops[i].dst = renames[i][2]
    /\ pc = "apply" => Len(ops) = idx - 1
    /\ (\E i \in 1..Len(log) : log[i].text = "Done renaming files.")
           => Len(ops) = Len(renames)

\* C14 witness: the first rename failed and the rename of another file
\* was attempted after it.
C14_Witness ==
    /\ Len(ops) = 2
    /\ ~ops[1].ok
    /\ ops[1].src # ops[2].src

\* A step that returns from ask_user.
AskUserReturns == pc = "ask" /\ pc' = "answered"

\* C15: ask_user asks at least once before it returns, returns only an
\* answer the validator matches, asks again after a line the validator
\* does not match (however many lines came before, up to the bound of the
\* model), and asks no more once a line is matched.
C15_AskUntilValid ==
    /\ [](/\ pc = "answered" => prompts >= 1 /\ validator_is_match(answer)
          /\ pc = "ask" /\ ~validator_is_match(answer) /\ prompts < MaxPrompts
                => ENABLED AskUserRead /\ ~ENABLED AskUserReturn)
    /\ [][/\ AskUserReturns => validator_is_match(answer) /\ answer' = answer
          /\ pc = "ask" /\ validator_is_match(answer)
                => AskUserReturns /\ prompts' = prompts /\ log' = log]_vars

\* C15 witness: ask_user returned after it asked a second time.
C15_Witness ==
    /\ pc = "answered"
    /\ prompts = 2
    /\ validator_is_match(answer)

\* C17: the warning of the unrecognized answer is never logged, and every
\* answer ask_user returns is, lower-cased and trimmed, one the match of
\* main knows.
C17_UnrecognizedBranchUnreachable ==
    /\ \A i \in 1..Len(log) :
           log[i].text # "Don't know what to do with answer"
    /\ pc = "answered" =>
           LET ans == trim(to_lowercase(answer))
           IN  is_confirm(ans) \/ is_decline(ans)

=============================================================================
